---- MODULE Spec2Model ----
(***************************************************************************)
(* Model of two_step_order_cleaner.py: the removal-list loaders            *)
(* (load_template_from_file, load_template_from_bytes) and the order       *)
(* transformer (transform_order).                                          *)
(*                                                                         *)
(* Text is a sequence of one-character strings, so strip, startswith and   *)
(* the two regular expressions are computed character by character.        *)
(* Row and column indices are 0-based, as in the source.                   *)
(***************************************************************************)
EXTENDS Integers, Sequences, FiniteSets, TLC

(* ---------------------------- bounds ---------------------------------- *)
NumCols == 3
NumDataRows == 2
MaxTplRows == 2

(* ---------------------------- text ------------------------------------ *)
Min(S) == CHOOSE x \in S : \A y \in S : x <= y
Max(S) == CHOOSE x \in S : \A y \in S : x >= y

Whitespace == {" "}
Digits == {"0", "3", "7", "9"}

\* str.strip(): drop leading and trailing whitespace
Strip(s) ==
    LET keep == {i \in 1..Len(s) : s[i] \notin Whitespace}
    IN  IF keep = {} THEN <<>> ELSE SubSeq(s, Min(keep), Max(keep))

\* str.startswith(prefix)
StartsWith(s, prefix) ==
    /\ Len(prefix) <= Len(s)
    /\ SubSeq(s, 1, Len(prefix)) = prefix

\* the literals of the source, abbreviated to short ASCII texts
SupplierLabel == <<"S", "U", "P">>       \* "ძირითადი მომწოდებელი"
DefaultProtected == <<"G", "P">>         \* "გაგრა პლუსი"
DefaultWestPrefix == <<"W">>             \* "დასავლეთი"

(* ---------------------------- cells ----------------------------------- *)
\* A cell is a record [k, v]: k is its kind, v its text (for a number, its
\* decimal representation).
StrCell(t) == [k |-> "str", v |-> t]
NumCell(t) == [k |-> "num", v |-> t]
NaN == [k |-> "nan", v |-> <<>>]
Blank == [k |-> "blank", v |-> <<>>]      \* a worksheet cell holding nothing
EmptyStr == StrCell(<<>>)

VARIABLES
    \* transform_order: arguments and environment
    order, shop_codes_to_clear, nicknames_to_clear, protected_supplier,
    west_prefix, na_text,
    \* transform_order: control and locals
    pc, error, run, sheet_name, raw, hdr_nickname, hdr_address, col_supplier,
    shop_cols_map, columns_to_clear, west_cols, out, rows_to_edit,
    cleared_cells, result,
    \* loaders
    tpl, file_exists, file_result, bytes_result

args == <<order, shop_codes_to_clear, nicknames_to_clear, protected_supplier,
          west_prefix, na_text>>
locals == <<sheet_name, raw, hdr_nickname, hdr_address, col_supplier,
            shop_cols_map, columns_to_clear, west_cols, out, rows_to_edit,
            cleared_cells>>
loader == <<tpl, file_exists, file_result, bytes_result>>
vars == <<args, pc, error, run, locals, result, loader>>

\* Series.astype(str) on one cell: a missing value becomes na_text
\* ("nan" where astype(str) stringifies NaN, "" where it keeps it missing and
\* fillna("") then fills it)
AsStr(cell) == IF cell.k = "nan" THEN na_text ELSE cell.v

(* ---------------------------- workbook I/O ---------------------------- *)
\* A stored worksheet holds its non-blank cells only: its extent ends at
\* the last row and the last column that hold a value.
TrimSheet(name, nrows, ncols, at) ==
    LET rs == {r \in 0..(nrows - 1) : \E c \in 0..(ncols - 1) : at[r][c] # Blank}
        cs == {c \in 0..(ncols - 1) : \E r \in 0..(nrows - 1) : at[r][c] # Blank}
        nr == IF rs = {} THEN 0 ELSE Max(rs) + 1
        nc == IF cs = {} THEN 0 ELSE Max(cs) + 1
    IN  [name |-> name, nrows |-> nr, ncols |-> nc,
         at |-> [r \in 0..(nr - 1) |-> [c \in 0..(nc - 1) |-> at[r][c]]]]

\* xls.parse(sheet_name, header=None, dtype=object): a blank cell is NaN
ParseCell(cell) == IF cell = Blank THEN NaN ELSE cell

Parse(sheet) ==
    [nrows |-> sheet.nrows,
     columns |-> [i \in 1..sheet.ncols |-> i - 1],
     at |-> [r \in 0..(sheet.nrows - 1) |->
                [c \in 0..(sheet.ncols - 1) |-> ParseCell(sheet.at[r][c])]]]

\* to_excel writes NaN as "" (na_rep) and the writer stores no cell for ""
WriteCell(cell) == IF cell.k = "nan" \/ cell = EmptyStr THEN Blank ELSE cell

\* to_excel with its default index=True: the row labels are written as a
\* first column
ToExcelWithIndex(df, name) ==
    LET nc == Len(df.columns)
    IN  TrimSheet(name, df.nrows, nc + 1,
            [r \in 0..(df.nrows - 1) |->
                [j \in 0..nc |-> IF j = 0 THEN NumCell(<<"7">>)
                                 ELSE WriteCell(df.at[r][df.columns[j]])]])

\* out.to_excel(writer, index=False, header=False, sheet_name=...):
\* the frame's columns are written by position
ToExcel(df, name) ==
    LET nc == Len(df.columns)
    IN  TrimSheet(name, df.nrows, nc,
            [r \in 0..(df.nrows - 1) |->
                [j \in 0..(nc - 1) |-> WriteCell(df.at[r][df.columns[j + 1]])]])

ColSet(df) == {df.columns[i] : i \in 1..Len(df.columns)}

\* a drop that removes nothing
IsKeptAlways(labels, c) == TRUE

\* DataFrame.drop(columns=labels)
IsKept(labels, c) == c \notin labels

DropColumns(df, labels) ==
    LET keep(c) == IsKept(labels, c)
        cols == SelectSeq(df.columns, keep)
        cset == {cols[i] : i \in 1..Len(cols)}
    IN  [nrows |-> df.nrows, columns |-> cols,
         at |-> [r \in 0..(df.nrows - 1) |-> [c \in cset |-> df.at[r][c]]]]

NoFrame == [nrows |-> 0, columns |-> <<>>, at |-> <<>>]
NoSheet == [name |-> "", nrows |-> 0, ncols |-> 0, at |-> <<>>]
NoSummary ==
    [sheet_name |-> "", columns_to_clear_count |-> 0, west_columns_dropped |-> 0,
     rows_eligible_by_supplier_rule |-> 0, cleared_cells_estimate |-> 0,
     protected_supplier |-> <<>>]
NoResult == [ok |-> FALSE, bytes |-> NoSheet, summary |-> NoSummary]
None == -1
data_start == 3

(* ---------------------------- transform_order ------------------------- *)
\* find_col returning the last matching index instead of the first
find_col_last(hdr_series, name_exact) ==
    LET hits == {i \in DOMAIN hdr_series : Strip(hdr_series[i]) = name_exact}
    IN  IF hits = {} THEN None ELSE Max(hits)

\* find_col: first index whose stripped text equals name_exact, else None
find_col(hdr_series, name_exact) ==
    LET hits == {i \in DOMAIN hdr_series : Strip(hdr_series[i]) = name_exact}
    IN  IF hits = {} THEN None ELSE Min(hits)

\* re.search(r"#(\\d+)#", s).  In the raw literal the two backslashes are the
\* pattern \\ , a literal backslash; the pattern is therefore: '#', then a
\* group of one backslash followed by one or more letters 'd', then '#'.
\* CodeMatch(s, i, j): the pattern matches s[i..j+1] with the group s[i+1..j].
CodeMatch(s, i, j) ==
    /\ i >= 1 /\ i + 2 <= j /\ j + 1 <= Len(s)
    /\ s[i] = "#"
    /\ s[i + 1] = "\\"
    /\ \A k \in (i + 2)..j : s[k] = "d"
    /\ s[j + 1] = "#"

\* the leftmost match; [found, group]
SearchShopCode(s) ==
    LET starts == {i \in 1..Len(s) : \E j \in 1..Len(s) : CodeMatch(s, i, j)}
    IN  IF starts = {} THEN [found |-> FALSE, group |-> <<>>]
        ELSE LET i == Min(starts)
                 j == CHOOSE j \in 1..Len(s) : CodeMatch(s, i, j)
             IN  [found |-> TRUE, group |-> SubSeq(s, i + 1, j)]

\* lines 155-159: the column -> shop code dictionary
BuildShopColsMap(address) ==
    LET hit == {i \in DOMAIN address : SearchShopCode(address[i]).found}
    IN  [i \in hit |-> SearchShopCode(address[i]).group]

\* lines 161-171: match by shop_code, then by nickname, into one set
MatchByCode(map, codes) == {c \in DOMAIN map : map[c] \in codes}
\* the nickname match without .strip()
MatchByNicknameNoStrip(nickname, names) ==
    {c \in DOMAIN nickname : nickname[c] \in names}
MatchByNickname(nickname, names) ==
    {c \in DOMAIN nickname : Strip(nickname[c]) \in names}
SelectColumns(map, codes, nickname, names) ==
    MatchByCode(map, codes) \cup MatchByNickname(nickname, names)

\* the West test as an equality instead of startswith
IsWestExact(text, prefix) == Strip(text) = prefix

\* lines 174-178: the West columns, in index order
IsWest(text, prefix) == StartsWith(Strip(text), prefix)

RECURSIVE SortedSeq(_)
SortedSeq(S) == IF S = {} THEN <<>> ELSE <<Min(S)>> \o SortedSeq(S \ {Min(S)})

WestCols(nickname, prefix) ==
    SortedSeq({i \in DOMAIN nickname : IsWest(nickname[i], prefix)})

SeqSet(q) == {q[i] : i \in 1..Len(q)}

\* the protection test without .str.strip()
NotProtectedNoStrip(text, protected) == text # protected

\* lines 185-187: the data rows whose supplier text is not the protected one
NotProtected(text, protected) == Strip(text) # protected

RowsToEdit(df, col, protected) ==
    {r \in data_start..(df.nrows - 1) : NotProtected(AsStr(df.at[r][col]), protected)}

\* the clear step skipping cells that hold no value
ClearedValueSkipNa(r, c, rows, cols, old) ==
    IF r \in rows /\ c \in cols /\ old.k # "nan" THEN EmptyStr ELSE old

\* lines 190-193: the clear loop
ClearedValue(r, c, rows, cols, old) ==
    IF r \in rows /\ c \in cols THEN EmptyStr ELSE old

ClearCells(df, rows, cols) ==
    [df EXCEPT !.at = [r \in 0..(df.nrows - 1) |->
        [c \in ColSet(df) |-> ClearedValue(r, c, rows, cols, df.at[r][c])]]]

NotNaCount(df, rows, cols) ==
    Cardinality({rc \in rows \X cols : df.at[rc[1]][rc[2]].k # "nan"})

\* lines 208-215
Summary(name, clear, west, rows, cleared, protected) ==
    [sheet_name |-> name,
     columns_to_clear_count |-> Cardinality(clear),
     west_columns_dropped |-> Len(west),
     rows_eligible_by_supplier_rule |-> Cardinality(rows),
     cleared_cells_estimate |-> cleared,
     protected_supplier |-> protected]

InitLocals ==
    /\ sheet_name = ""
    /\ raw = NoFrame
    /\ hdr_nickname = <<>>
    /\ hdr_address = <<>>
    /\ col_supplier = None
    /\ shop_cols_map = <<>>
    /\ columns_to_clear = {}
    /\ west_cols = <<>>
    /\ out = NoFrame
    /\ rows_to_edit = {}
    /\ cleared_cells = 0

\* lines 139-145; raw.iloc[0] and raw.iloc[1] raise IndexError on a frame
\* with fewer than two rows
ParseOrder ==
    /\ pc = "parse"
    /\ sheet_name' = order.name
    /\ raw' = Parse(order)
    /\ IF raw'.nrows < 2
       THEN /\ pc' = "failed"
            /\ error' = "IndexError"
            /\ UNCHANGED <<hdr_nickname, hdr_address>>
       ELSE /\ hdr_nickname' = [c \in ColSet(raw') |-> AsStr(raw'.at[0][c])]
            /\ hdr_address' = [c \in ColSet(raw') |-> AsStr(raw'.at[1][c])]
            /\ pc' = "supplier"
            /\ UNCHANGED error
    /\ UNCHANGED <<args, run, col_supplier, shop_cols_map, columns_to_clear,
                   west_cols, out, rows_to_edit, cleared_cells, result, loader>>

\* lines 148-152
FindSupplier ==
    /\ pc = "supplier"
    /\ col_supplier' = find_col(hdr_nickname, SupplierLabel)
    /\ IF col_supplier' = None
       THEN pc' = "failed" /\ error' = "RuntimeError"
       ELSE pc' = "select" /\ UNCHANGED error
    /\ UNCHANGED <<args, run, sheet_name, raw, hdr_nickname, hdr_address,
                   shop_cols_map, columns_to_clear, west_cols, out,
                   rows_to_edit, cleared_cells, result, loader>>

\* lines 155-178: the code map, the clear-set and the West columns
SelectClearSet ==
    /\ pc = "select"
    /\ shop_cols_map' = BuildShopColsMap(hdr_address)
    /\ columns_to_clear' = SelectColumns(shop_cols_map', shop_codes_to_clear,
                                         hdr_nickname, nicknames_to_clear)
    /\ west_cols' = WestCols(hdr_nickname, west_prefix)
    /\ pc' = "mask"
    /\ UNCHANGED <<args, error, run, sheet_name, raw, hdr_nickname,
                   hdr_address, col_supplier, out, rows_to_edit, cleared_cells,
                   result, loader>>

\* lines 180-187
CopyAndMask ==
    /\ pc = "mask"
    /\ out' = raw
    /\ rows_to_edit' = RowsToEdit(out', col_supplier, protected_supplier)
    /\ pc' = "clear"
    /\ UNCHANGED <<args, error, run, sheet_name, raw, hdr_nickname,
                   hdr_address, col_supplier, shop_cols_map, columns_to_clear,
                   west_cols, cleared_cells, result, loader>>

\* lines 189-193, the whole loop
ClearLoop ==
    /\ pc = "clear"
    /\ cleared_cells' = NotNaCount(out, rows_to_edit, columns_to_clear)
    /\ out' = ClearCells(out, rows_to_edit, columns_to_clear)
    /\ pc' = "drop"
    /\ UNCHANGED <<args, error, run, sheet_name, raw, hdr_nickname,
                   hdr_address, col_supplier, shop_cols_map, columns_to_clear,
                   west_cols, rows_to_edit, result, loader>>

\* lines 195-196
DropWest ==
    /\ pc = "drop"
    /\ out' = IF west_cols # <<>> THEN DropColumns(out, SeqSet(west_cols)) ELSE out
    /\ pc' = "write"
    /\ UNCHANGED <<args, error, run, sheet_name, raw, hdr_nickname,
                   hdr_address, col_supplier, shop_cols_map, columns_to_clear,
                   west_cols, rows_to_edit, cleared_cells, result, loader>>

\* lines 198-217
WriteResult ==
    /\ pc = "write"
    /\ result' = [ok |-> TRUE,
                  bytes |-> ToExcel(out, sheet_name),
                  summary |-> Summary(sheet_name, columns_to_clear, west_cols,
                                      rows_to_edit, cleared_cells,
                                      protected_supplier)]
    /\ pc' = "done"
    /\ UNCHANGED <<args, error, run, locals, loader>>

\* a second call of transform_order, on the bytes the first call returned and
\* with the same other arguments
Rerun ==
    /\ pc = "done"
    /\ run = 1
    /\ run' = 2
    /\ order' = result.bytes
    /\ pc' = "parse"
    /\ sheet_name' = ""
    /\ raw' = NoFrame
    /\ hdr_nickname' = <<>>
    /\ hdr_address' = <<>>
    /\ col_supplier' = None
    /\ shop_cols_map' = <<>>
    /\ columns_to_clear' = {}
    /\ west_cols' = <<>>
    /\ out' = NoFrame
    /\ rows_to_edit' = {}
    /\ cleared_cells' = 0
    /\ result' = NoResult
    /\ UNCHANGED <<shop_codes_to_clear, nicknames_to_clear, protected_supplier,
                   west_prefix, na_text, error, loader>>

(* ---------------------------- loaders --------------------------------- *)
\* Series.str.replace(r"\\.0$", "", regex=True).  In the raw literal the two
\* backslashes are the pattern \\ , a literal backslash, and the dot is the
\* wildcard: the pattern is a backslash, any one character and '0' at the end
\* of the text.
ReplaceTrailing(s) ==
    LET n == Len(s)
    IN  IF n >= 3 /\ s[n - 2] = "\\" /\ s[n] = "0"
        THEN SubSeq(s, 1, n - 3)
        ELSE s

\* lines 73-78 and 79 of load_template_from_file
FileShopCode(v) == Strip(ReplaceTrailing(v))
FileNickname(v) == Strip(v)

\* lines 103-108 and 109 of load_template_from_bytes
BytesShopCode(v) == Strip(ReplaceTrailing(v))
BytesNickname(v) == Strip(v)

HasColumn(t, name) == name \in t.columns

\* column name of a parsed template, "" for every row when the loader has
\* just added it (lines 70-71, 100-101)
Column(t, name) ==
    [i \in 1..Len(t.rows) |-> IF HasColumn(t, name) THEN t.rows[i][name] ELSE <<>>]

Idle == [status |-> "idle", shop_codes |-> {}, nicknames |-> {}]
Raised(e) == [status |-> e, shop_codes |-> {}, nicknames |-> {}]

\* lines 56-86
load_template_from_file(exists, t) ==
    IF ~exists THEN Raised("FileNotFoundError")
    ELSE IF ~HasColumn(t, "shop_code") THEN Raised("ValueError")
    ELSE LET code == [i \in 1..Len(t.rows) |-> FileShopCode(Column(t, "shop_code")[i])]
             nick == [i \in 1..Len(t.rows) |->
                         FileNickname(Column(t, "shop_nickname_optional")[i])]
         IN  [status |-> "ok",
              shop_codes |-> {code[i] : i \in 1..Len(t.rows)} \ {<<>>},
              nicknames |-> {nick[i] : i \in 1..Len(t.rows)} \ {<<>>}]

\* lines 89-116
load_template_from_bytes(t) ==
    IF ~HasColumn(t, "shop_code") THEN Raised("ValueError")
    ELSE LET code == [i \in 1..Len(t.rows) |-> BytesShopCode(Column(t, "shop_code")[i])]
             nick == [i \in 1..Len(t.rows) |->
                         BytesNickname(Column(t, "shop_nickname_optional")[i])]
         IN  [status |-> "ok",
              shop_codes |-> {code[i] : i \in 1..Len(t.rows)} \ {<<>>},
              nicknames |-> {nick[i] : i \in 1..Len(t.rows)} \ {<<>>}]

LoadTemplateFromFile ==
    /\ pc = "idle"
    /\ file_result = Idle
    /\ file_result' = load_template_from_file(file_exists, tpl)
    /\ UNCHANGED <<args, pc, error, run, locals, result, tpl, file_exists,
                   bytes_result>>

LoadTemplateFromBytes ==
    /\ pc = "idle"
    /\ bytes_result = Idle
    /\ bytes_result' = load_template_from_bytes(tpl)
    /\ UNCHANGED <<args, pc, error, run, locals, result, tpl, file_exists,
                   file_result>>

(* ---------------------------- inputs ---------------------------------- *)
\* the header cells (rows 0, 1, 2) a column of an order sheet may carry
HeaderPool ==
    { \* the supplier column, its label padded with blanks
      [h0 |-> StrCell(<<" ", "S", "U", "P", " ">>), h1 |-> Blank, h2 |-> Blank],
      \* a shop: nickname and an address with two #digits# tokens
      [h0 |-> StrCell(<<"V", " ">>),
       h1 |-> StrCell(<<"#", "0", "3", "7", "#", " ", "#", "0", "9", "9", "#">>),
       h2 |-> StrCell(<<"q">>)],
      \* a West aggregate whose address holds backslash-d tokens
      [h0 |-> StrCell(<<"W", " ", "t">>),
       h1 |-> StrCell(<<"x", "#", "\\", "d", "#", "#", "\\", "d", "d", "#">>),
       h2 |-> Blank],
      \* a column without nickname
      [h0 |-> Blank,
       h1 |-> StrCell(<<"#", "\\", "d", "d", "#", "3">>),
       h2 |-> StrCell(<<"q">>)] }

\* a data row: its cell in a supplier-labelled column, and in the others
RowPool ==
    { [sup |-> StrCell(<<" ", "G", "P", " ">>), fill |-> NumCell(<<"7">>)],
      [sup |-> StrCell(<<"o">>), fill |-> StrCell(<<"x", " ">>)],
      [sup |-> Blank, fill |-> Blank] }

SheetNames == {"TDSheet"}

\* the (shop_codes, nicknames) pairs a run is given
RemovalSpecs ==
    LET codes == {<<"\\", "d">>, <<"\\", "d", "d">>, <<"0", "3", "7">>}
    IN  { <<{}, {}>>,
          <<codes, {}>>,
          <<{}, {<<"V">>}>>,
          <<codes, {<<"n", "a", "n">>, SupplierLabel}>> }

WestPrefixes == {DefaultWestPrefix, <<>>}

NaTexts == {<<"n", "a", "n">>, <<>>}

IsSupplierHeader(h) == h.h0.k = "str" /\ Strip(h.h0.v) = SupplierLabel

\* the workbook with the given columns and data rows
MakeOrder(name, cols, rows) ==
    TrimSheet(name, data_start + NumDataRows, NumCols,
        [r \in 0..(data_start + NumDataRows - 1) |->
            [c \in 0..(NumCols - 1) |->
                IF r = 0 THEN cols[c].h0
                ELSE IF r = 1 THEN cols[c].h1
                ELSE IF r = 2 THEN cols[c].h2
                ELSE IF IsSupplierHeader(cols[c]) THEN rows[r - data_start].sup
                ELSE rows[r - data_start].fill]])

\* the shop_code and shop_nickname_optional cells of a template, as
\* read_excel(dtype=str).fillna("") returns them
TplCodeCells ==
    { <<"3", ".", "0">>, <<" ", "0", "3", "7", " ">>, <<>>, <<"7", "\\", "a", "0">> }
TplNicknameCells == { <<>>, <<" ", "V", " ">> }

TplRows(n) ==
    [1..n -> [shop_code : TplCodeCells, shop_nickname_optional : TplNicknameCells]]

\* the cells of a column the sheet does not have are not part of the table
TplTable(cols, rows) ==
    [columns |-> cols,
     rows |-> [i \in 1..Len(rows) |->
                 [name \in {"shop_code", "shop_nickname_optional"} |->
                     IF name \in cols THEN rows[i][name] ELSE <<>>]]]

NoTemplate == [columns |-> {}, rows |-> <<>>]

(* ---------------------------- specifications -------------------------- *)
InitArgs ==
    /\ \E name \in SheetNames :
       \E cols \in [0..(NumCols - 1) -> HeaderPool] :
       \E rows \in [0..(NumDataRows - 1) -> RowPool] :
            order = MakeOrder(name, cols, rows)
    /\ \E rs \in RemovalSpecs :
          shop_codes_to_clear = rs[1] /\ nicknames_to_clear = rs[2]
    /\ protected_supplier = DefaultProtected
    /\ west_prefix \in WestPrefixes
    /\ na_text \in NaTexts

\* one call of transform_order
Init ==
    /\ InitArgs
    /\ pc = "parse"
    /\ error = ""
    /\ run = 1
    /\ InitLocals
    /\ result = NoResult
    /\ tpl = NoTemplate
    /\ file_exists = FALSE
    /\ file_result = Idle
    /\ bytes_result = Idle

Transform ==
    \/ ParseOrder
    \/ FindSupplier
    \/ SelectClearSet
    \/ CopyAndMask
    \/ ClearLoop
    \/ DropWest
    \/ WriteResult

Next == Transform

Spec == Init /\ [][Next]_vars

\* transform_order called a second time on its own output
NextRerun == Transform \/ Rerun

SpecRerun == Init /\ [][NextRerun]_vars

\* the two loaders on one template
InitLoader ==
    /\ \E n \in 0..MaxTplRows :
       \E rows \in TplRows(n) :
       \E cols \in SUBSET {"shop_code", "shop_nickname_optional"} :
            tpl = TplTable(cols, rows)
    /\ file_exists \in BOOLEAN
    /\ file_result = Idle
    /\ bytes_result = Idle
    /\ order = NoSheet
    /\ shop_codes_to_clear = {}
    /\ nicknames_to_clear = {}
    /\ protected_supplier = DefaultProtected
    /\ west_prefix = DefaultWestPrefix
    /\ na_text = <<>>
    /\ pc = "idle"
    /\ error = ""
    /\ run = 1
    /\ InitLocals
    /\ result = NoResult

NextLoader == LoadTemplateFromFile \/ LoadTemplateFromBytes

SpecLoader == InitLoader /\ [][NextLoader]_vars

(* ---------------------------- properties ------------------------------ *)
AfterParse == pc \in {"supplier", "select", "mask", "clear", "drop", "write", "done"}
AfterSupplier == pc \in {"select", "mask", "clear", "drop", "write", "done"}
AfterSelect == pc \in {"mask", "clear", "drop", "write", "done"}
AfterMask == pc \in {"clear", "drop", "write", "done"}
AfterClear == pc \in {"drop", "write", "done"}
AfterDrop == pc \in {"write", "done"}

\* the stripped text of the row-0 cell of column c of the parsed grid
Label(c) == Strip(AsStr(raw.at[0][c]))
\* the text of the row-1 cell of column c
Address(c) == AsStr(raw.at[1][c])

SupplierColumns == {c \in ColSet(raw) : Label(c) = SupplierLabel}
LabelIsWest(c) == StartsWith(Label(c), west_prefix)
WestColumns == {c \in ColSet(raw) : LabelIsWest(c)}

\* the data rows whose supplier cell, as stripped text, is the protected
\* supplier, and the other data rows
ProtectedRows ==
    LET sc == Min(SupplierColumns)
    IN  {r \in data_start..(raw.nrows - 1) :
            Strip(AsStr(raw.at[r][sc])) = protected_supplier}
EligibleRows == (data_start..(raw.nrows - 1)) \ ProtectedRows

\* the cell at row r, column j of a stored sheet (blank outside its extent)
SheetAt(sheet, r, j) ==
    IF r < sheet.nrows /\ j < sheet.ncols THEN sheet.at[r][j] ELSE Blank

CodeMatched == {c \in ColSet(raw) : c \in DOMAIN shop_cols_map
                                     /\ shop_cols_map[c] \in shop_codes_to_clear}
NicknameMatched == {c \in ColSet(raw) : Label(c) \in nicknames_to_clear}

\* C1: the clear-set is the union of the columns whose mapped shop code is in
\* shop_codes and the columns whose stripped row-0 label is in nicknames; the
\* summary counts each such column once.
C1_ClearSetIsUnion ==
    AfterSelect =>
        LET byCode == CodeMatched
            byName == NicknameMatched
        IN  /\ columns_to_clear = byCode \cup byName
            /\ \A c \in ColSet(raw) :
                 c \in columns_to_clear <=> (c \in byCode \/ c \in byName)
            /\ pc = "done" =>
                 result.summary.columns_to_clear_count
                    = Cardinality({c \in ColSet(raw) : c \in byCode \/ c \in byName})

\* a finished run with a column matched by code alone, one by nickname alone
\* and one by both
C1_Witness ==
    /\ pc = "done"
    /\ CodeMatched \ NicknameMatched # {}
    /\ NicknameMatched \ CodeMatched # {}
    /\ CodeMatched \cap NicknameMatched # {}
    /\ result.summary.columns_to_clear_count = 3

\* the token '#', one or more decimal digits, '#' at s[i..j+1]
DigitToken(s, i, j) ==
    /\ i >= 1 /\ i + 1 <= j /\ j + 1 <= Len(s)
    /\ s[i] = "#"
    /\ \A k \in (i + 1)..j : s[k] \in Digits
    /\ s[j + 1] = "#"
DigitTokenStarts(s) == {i \in 1..Len(s) : \E j \in 1..Len(s) : DigitToken(s, i, j)}
FirstDigitToken(s) ==
    LET i == Min(DigitTokenStarts(s))
        j == CHOOSE j \in 1..Len(s) : DigitToken(s, i, j)
    IN  SubSeq(s, i + 1, j)

\* C2: a column whose row-1 text holds a '#digits#' token is mapped to the
\* digits of the first such token; a column without such a token is not in
\* the map.
C2_FirstDigitTokenMapped ==
    AfterSelect =>
        \A c \in ColSet(raw) :
            IF DigitTokenStarts(Address(c)) # {}
            THEN c \in DOMAIN shop_cols_map
                 /\ shop_cols_map[c] = FirstDigitToken(Address(c))
            ELSE c \notin DOMAIN shop_cols_map

\* C3: a protected row keeps, in every column of the working copy and of the
\* output, the value it had in the input.
C3_ProtectedRowsUntouched ==
    AfterMask =>
        LET protected == ProtectedRows
        IN  /\ \A r \in protected : \A c \in ColSet(out) :
                 out.at[r][c] = raw.at[r][c]
            /\ pc = "done" =>
                 \A r \in protected : \A j \in 0..(Len(out.columns) - 1) :
                    SheetAt(result.bytes, r, j) = SheetAt(order, r, out.columns[j + 1])

\* a finished run with a protected row, where the supplier column and another
\* surviving column are in the clear-set and an eligible row was blanked there
C3_Witness ==
    /\ pc = "done"
    /\ col_supplier \in columns_to_clear
    /\ ProtectedRows # {}
    /\ \E r \in EligibleRows : \E c \in ColSet(out) \ {col_supplier} :
          /\ c \in columns_to_clear
          /\ raw.at[r][c] # NaN
          /\ out.at[r][c] = EmptyStr

\* C4: in every surviving column, a cell of the clear-set in an eligible
\* data row is the empty string, and every other cell is the input cell; the
\* sheet name is the input's.
C4_ClearAndFrame ==
    AfterClear =>
        LET eligible == EligibleRows
        IN  /\ \A r \in 0..(raw.nrows - 1) : \A c \in ColSet(out) :
                 out.at[r][c] = IF c \in columns_to_clear /\ r \in eligible
                                THEN EmptyStr
                                ELSE raw.at[r][c]
            /\ pc = "done" =>
                 /\ result.bytes.name = order.name
                 /\ result.summary.sheet_name = order.name
                 /\ \A r \in 0..(raw.nrows - 1) : \A j \in 0..(Len(out.columns) - 1) :
                      SheetAt(result.bytes, r, j)
                         = IF out.columns[j + 1] \in columns_to_clear /\ r \in eligible
                           THEN Blank
                           ELSE SheetAt(order, r, out.columns[j + 1])

\* a finished run that blanked a text cell and a missing cell of eligible
\* rows and kept a header cell of the same column
C4_Witness ==
    /\ pc = "done"
    /\ \E c \in ColSet(out) \cap columns_to_clear :
          /\ \E r \in EligibleRows :
                raw.at[r][c].k = "str" /\ out.at[r][c] = EmptyStr
          /\ \E r \in EligibleRows :
                raw.at[r][c] = NaN /\ out.at[r][c] = EmptyStr
          /\ raw.at[1][c] # NaN /\ out.at[1][c] = raw.at[1][c]

NotWestLabel(c) == ~LabelIsWest(c)

\* C5: the output holds exactly the columns whose stripped row-0 label does
\* not start with west_prefix, in their order, with every row; with both
\* sets empty it is the input without the West columns; the summary counts
\* the removed columns.
C5_WestRemoval ==
    pc = "done" =>
        /\ out.columns = SelectSeq(raw.columns, NotWestLabel)
        /\ out.nrows = raw.nrows
        /\ result.summary.west_columns_dropped = Cardinality(WestColumns)
        /\ (shop_codes_to_clear = {} /\ nicknames_to_clear = {}) =>
             /\ \A r \in 0..(raw.nrows - 1) : \A c \in ColSet(out) :
                    out.at[r][c] = raw.at[r][c]
             /\ \A r \in 0..(raw.nrows - 1) : \A j \in 0..(Len(out.columns) - 1) :
                    SheetAt(result.bytes, r, j) = SheetAt(order, r, out.columns[j + 1])
             /\ result.bytes.ncols <= Len(out.columns)
             /\ result.bytes.nrows <= raw.nrows

\* a finished run with empty sets that removed a West column standing
\* between two columns it kept
C5_Witness ==
    /\ pc = "done"
    /\ shop_codes_to_clear = {} /\ nicknames_to_clear = {}
    /\ \E c \in WestColumns : \E a, b \in ColSet(out) : a < c /\ c < b
    /\ result.summary.west_columns_dropped = 1

\* C6 as claimed: no cell of a West column is ever blanked by the clear
\* step, and the output holds no West column.
C6_WestNeverCleared ==
    AfterMask =>
        LET west == WestColumns
        IN  /\ \A c \in ColSet(out) \cap west : \A r \in 0..(raw.nrows - 1) :
                 out.at[r][c] = raw.at[r][c]
            /\ AfterDrop => ColSet(out) \cap west = {}

\* C6 as amended: a column that is both in the clear-set and a West column
\* is removed entirely: once the drop step has run, the working copy and the
\* output hold no cell of it, and the output's columns are the remaining
\* input columns.
C6_WestRemovedEntirely ==
    AfterDrop =>
        LET west == WestColumns
        IN  /\ \A c \in columns_to_clear \cap west : c \notin ColSet(out)
            /\ \A r \in 0..(raw.nrows - 1) :
                 DOMAIN out.at[r] \cap (columns_to_clear \cap west) = {}
            /\ pc = "done" =>
                 /\ result.bytes.ncols <= Cardinality(ColSet(raw) \ west)
                 /\ \A j \in 0..(result.bytes.ncols - 1) : out.columns[j + 1] \notin west

\* a finished run that removed a West column of the clear-set whose cells
\* had a value in an eligible row, next to a column it kept
C6_Witness ==
    /\ pc = "done"
    /\ west_prefix # <<>>
    /\ \E c \in columns_to_clear \cap WestColumns : \E r \in rows_to_edit :
          raw.at[r][c] # NaN
    /\ result.bytes.ncols >= 1

\* C8: the supplier column is the leftmost column whose stripped row-0 text
\* is the supplier label; without such a column the run fails before a
\* working copy exists, and returns neither bytes nor summary.
C8_SupplierLookup ==
    (pc # "parse" /\ raw.nrows >= 2) =>
        LET labelled == SupplierColumns
        IN  /\ AfterSupplier => /\ labelled # {}
                                /\ col_supplier = Min(labelled)
            /\ labelled = {} =>
                 /\ pc \in {"supplier", "failed"}
                 /\ out = NoFrame
                 /\ cleared_cells = 0
                 /\ result = NoResult
            /\ (pc = "failed" /\ error = "RuntimeError") => labelled = {}

\* a run that failed for want of a supplier column, on a grid with a West
\* column and a column of the clear-set
C8_Witness ==
    /\ pc = "failed"
    /\ error = "RuntimeError"
    /\ WestColumns # {}
    /\ NicknameMatched # {}

\* the first run's output, the second run's input, still has two rows and a
\* supplier-label column
SecondInputUsable ==
    /\ order.nrows >= 2
    /\ \E c \in 0..(order.ncols - 1) :
          Strip(AsStr(ParseCell(order.at[0][c]))) = SupplierLabel

\* C9 as claimed: the second run on the first run's output succeeds and
\* returns its input, dropping no column.
C9_SecondRunIdempotent ==
    run = 2 =>
        /\ pc # "failed"
        /\ pc = "done" =>
             /\ result.ok
             /\ result.bytes = order
             /\ result.summary.west_columns_dropped = 0

\* C9 as amended: when the first run's output still has a supplier-label
\* column and two rows, the second run succeeds and returns its input: it
\* drops no column and changes no stored cell.
C9_SecondRunIdempotentWhenUsable ==
    (run = 2 /\ SecondInputUsable) =>
        /\ pc # "failed"
        /\ pc = "done" =>
             /\ result.ok
             /\ result.bytes = order
             /\ result.summary.west_columns_dropped = 0
             /\ Len(out.columns) = Len(raw.columns)
             /\ \A r \in 0..(raw.nrows - 1) : \A c \in ColSet(raw) :
                    WriteCell(out.at[r][c]) = WriteCell(raw.at[r][c])

\* a finished second run whose input had lost a West column and held cells
\* the first run had blanked, and which cleared again
C9_Witness ==
    /\ run = 2
    /\ pc = "done"
    /\ order.ncols < NumCols
    /\ columns_to_clear # {}
    /\ \E r \in rows_to_edit : \E c \in columns_to_clear :
          raw.at[r][c] = NaN /\ out.at[r][c] = EmptyStr
    /\ \E r \in rows_to_edit : \E c \in ColSet(raw) : raw.at[r][c] # NaN

\* C10: a missing row-0 or row-1 cell is read as the empty text and never
\* fails the run: a column whose row-0 cell is missing is not selected by a
\* non-empty nickname, is not the supplier column and is a West column only
\* for the empty prefix; a column whose row-1 cell is missing has no code.
C10_MissingCellsAreEmptyText ==
    /\ AfterParse =>
         \A c \in ColSet(raw) :
            /\ raw.at[0][c] = NaN => hdr_nickname[c] = <<>>
            /\ raw.at[1][c] = NaN => hdr_address[c] = <<>>
    /\ AfterSupplier => raw.at[0][col_supplier] # NaN
    /\ AfterSelect => \A c \in ColSet(raw) : raw.at[1][c] = NaN => c \notin DOMAIN shop_cols_map
    /\ AfterSelect =>
         \A c \in ColSet(raw) :
            (raw.at[0][c] = NaN /\ <<>> \notin nicknames_to_clear /\ c \in columns_to_clear)
               => c \in CodeMatched
    /\ AfterSelect =>
         \A c \in ColSet(raw) :
            (raw.at[0][c] = NaN /\ c \in SeqSet(west_cols)) => west_prefix = <<>>

\* "3.0" -> "3": a trailing ".0" removed
StripDotZero(s) ==
    LET n == Len(s)
    IN  IF n >= 2 /\ s[n - 1] = "." /\ s[n] = "0" THEN SubSeq(s, 1, n - 2) ELSE s

NormalizedCodes(t) ==
    {Strip(StripDotZero(t.rows[i]["shop_code"])) : i \in 1..Len(t.rows)} \ {<<>>}

\* C7: both loaders put into shop_codes every shop_code value with a
\* trailing ".0" and the surrounding whitespace removed, if it is not empty,
\* and they return the same sets.
C7_LoaderNormalization ==
    /\ file_result.status = "ok" => file_result.shop_codes = NormalizedCodes(tpl)
    /\ bytes_result.status = "ok" => bytes_result.shop_codes = NormalizedCodes(tpl)
    /\ (file_result.status = "ok" /\ bytes_result.status = "ok") =>
          file_result = bytes_result
====
